---- MODULE Spec2Model ----
(***************************************************************************)
(* A model of bsb's device targetting (src/bsb/simulation/targetting.py):  *)
(*   - the rank-0-computes / broadcast protocol of initialise_targets and  *)
(*     initialise_patterns with the get_targets / get_patterns checkpoint, *)
(*   - the strategy dispatch of TargetsNeurons.initialise,                 *)
(*   - the resolution strategies by_label, representatives, cylinder and   *)
(*     local,                                                              *)
(*   - the section targetting of TargetsSections.                          *)
(* Every Python value is a record with a `kind` field, so that None, a     *)
(* raised exception and a computed value are distinct and comparable.      *)
(***************************************************************************)
EXTENDS Integers, Sequences, FiniteSets, TLC

VARIABLES
    \* ---- the coordinator (one device object per MPI process) ----
    pc,          \* pc[p]: where process p stands: "idle", inside initialise_targets /
                 \* initialise_patterns before the bcast, or "aborted" by an exception
    local,       \* local[p]: the local variable `targets` / `patterns` of the running call
    attrs,       \* attrs[p]: the device object's instance attributes (name -> value)
    step,        \* step[p]: the number of collectives process p has completed
    script,      \* the program's sequence of collective calls, the same on every rank
    wire,        \* the values rank 0 handed to COMM_WORLD.bcast, in order
    lastGet,     \* the outcome of the latest get_targets / get_patterns call
    calls,       \* history: every run of self._get_targets() / self.create_patterns(),
                 \* with the rank that ran it, its cycle and what it returned or raised
    \* ---- the resolver, dispatch and section targetting (one device, one call) ----
    dev,         \* the device's configuration attributes
    net,         \* the scaffold / adapter / cell the call reads
    out          \* the outcome of the call

vars == <<pc, local, attrs, step, script, wire, lastGet, calls, dev, net, out>>

coordVars == <<pc, local, attrs, step, script, wire, lastGet, calls>>
callVars == <<dev, net, out>>

\* ------------------------------------------------------------------ values

None == [kind |-> "None"]
Value(v) == [kind |-> "value", v |-> v]
Raise(exc) == [kind |-> "raise", exc |-> exc]
Pending == [kind |-> "pending"]

\* (mutant of SetAttr: the assignment rebuilds the object, losing its other attributes)
SetAttrOnly(o, n, v) == [k \in {n} |-> v]

\* setattr(o, n, v) and hasattr(o, n) on an object's attribute dictionary
SetAttr(o, n, v) == [k \in DOMAIN o \cup {n} |-> IF k = n THEN v ELSE o[k]]
HasAttr(o, n) == n \in DOMAIN o
NoAttrs == <<>>

\* ------------------------------------------------------------------ bounds

NProcs == 2
MaxCycles == 2
NVals == 2

Ranks == 0 .. NProcs - 1
\* What a resolution strategy or create_patterns can return on rank 0: the
\* strategies draw at random, so two cycles need not compute the same value.
Computed == {Value(i) : i \in 1 .. NVals}
Kinds == {"targets", "patterns"}

\* ------------------------------------------------------------ coordinator

\* self.adapter.pc_id: the MPI rank of the process
pc_id(p) == p

\* (mutant of IsRoot: the rank test is dropped and every rank computes)
IsRootAll(p) == TRUE

\* `if self.adapter.pc_id == 0:` of initialise_targets / initialise_patterns
IsRoot(p) == pc_id(p) = 0

SlotOf(kind) == IF kind = "targets" THEN "_targets" ELSE "_patterns"

\* The collective calls are the same sequence on every rank: the first rank to
\* arrive at call number n decides what it is, the others make the same call.
MayCall(p, kind) ==
    /\ pc[p] = "idle"
    /\ step[p] < MaxCycles
    /\ step[p] < Len(script) => script[step[p] + 1] = kind

Called(p, kind) ==
    IF step[p] < Len(script) THEN script ELSE Append(script, kind)

\* initialise_targets / initialise_patterns up to the bcast: rank 0 runs
\* self._get_targets() / self.create_patterns(), which returns a value ...
Compute(p, kind) ==
    /\ MayCall(p, kind)
    /\ IsRoot(p)
    /\ \E v \in Computed :
        /\ local' = [local EXCEPT ![p] = v]
        /\ calls' = Append(calls, [rank |-> pc_id(p), cycle |-> step[p] + 1, res |-> v])
    /\ pc' = [pc EXCEPT ![p] = kind]
    /\ script' = Called(p, kind)
    /\ UNCHANGED <<attrs, step, wire, lastGet>>
    /\ UNCHANGED callVars

\* ... or raises: the exception leaves the call before the bcast, uncaught.
ComputeRaises(p, kind) ==
    /\ MayCall(p, kind)
    /\ IsRoot(p)
    /\ calls' = Append(calls, [rank |-> pc_id(p), cycle |-> step[p] + 1,
                                res |-> Raise("Exception")])
    /\ pc' = [pc EXCEPT ![p] = "aborted"]
    /\ script' = Called(p, kind)
    /\ UNCHANGED <<local, attrs, step, wire, lastGet>>
    /\ UNCHANGED callVars

\* every other rank: `targets = None`
Placeholder(p, kind) ==
    /\ MayCall(p, kind)
    /\ ~IsRoot(p)
    /\ local' = [local EXCEPT ![p] = None]
    /\ pc' = [pc EXCEPT ![p] = kind]
    /\ script' = Called(p, kind)
    /\ UNCHANGED <<attrs, step, wire, lastGet, calls>>
    /\ UNCHANGED callVars

\* (mutant of bcast: no broadcast, every rank keeps its local object)
bcast_local(p) == local[p]

\* COMM_WORLD.bcast(obj, root=0): the root returns its own object, any other
\* rank the object the root passed to its call of the same number.
bcast(p) == IF pc_id(p) = 0 THEN local[p] ELSE wire[step[p] + 1]

\* a non-root rank blocks in bcast until the root has made that call
BcastReady(p) == pc_id(p) = 0 \/ Len(wire) > step[p]

\* `self._targets = ...bcast(targets, root=0)`, likewise self._patterns
BcastStore(p) ==
    /\ pc[p] \in Kinds
    /\ BcastReady(p)
    /\ attrs' = [attrs EXCEPT ![p] = SetAttr(@, SlotOf(pc[p]), bcast(p))]
    /\ wire' = IF pc_id(p) = 0 THEN Append(wire, local[p]) ELSE wire
    /\ step' = [step EXCEPT ![p] = @ + 1]
    /\ pc' = [pc EXCEPT ![p] = "idle"]
    /\ UNCHANGED <<local, script, lastGet, calls>>
    /\ UNCHANGED callVars

\* (mutant of CheckedSlot: get_patterns tests and returns the targets' attribute)
CheckedSlotSame(op) == "_targets"

\* the attribute get_targets / get_patterns tests with hasattr and returns
CheckedSlot(op) == IF op = "get_targets" THEN "_targets" ELSE "_patterns"

Get(p, op) ==
    IF HasAttr(attrs[p], CheckedSlot(op))
    THEN [op |-> op, rank |-> p, res |-> attrs[p][CheckedSlot(op)]]
    ELSE [op |-> op, rank |-> p,
          res |-> [kind |-> "raise", exc |-> "ParallelIntegrityError",
                   rank |-> pc_id(p)]]

get_targets(p) ==
    /\ pc[p] = "idle"
    /\ lastGet' = Get(p, "get_targets")
    /\ UNCHANGED <<pc, local, attrs, step, script, wire, calls>>
    /\ UNCHANGED callVars

get_patterns(p) ==
    /\ pc[p] = "idle"
    /\ lastGet' = Get(p, "get_patterns")
    /\ UNCHANGED <<pc, local, attrs, step, script, wire, calls>>
    /\ UNCHANGED callVars

CoordIdle ==
    /\ pc = [p \in Ranks |-> "idle"]
    /\ local = [p \in Ranks |-> None]
    /\ attrs = [p \in Ranks |-> NoAttrs]
    /\ step = [p \in Ranks |-> 0]
    /\ script = <<>>
    /\ wire = <<>>
    /\ lastGet = [op |-> "none", rank |-> 0, res |-> None]
    /\ calls = <<>>

CallIdle ==
    /\ dev = NoAttrs
    /\ net = NoAttrs
    /\ out = Pending

InitCoord == CoordIdle /\ CallIdle

NextCoord ==
    \/ \E p \in Ranks, kind \in Kinds : Compute(p, kind)
    \/ \E p \in Ranks, kind \in Kinds : ComputeRaises(p, kind)
    \/ \E p \in Ranks, kind \in Kinds : Placeholder(p, kind)
    \/ \E p \in Ranks : BcastStore(p)
    \/ \E p \in Ranks : get_targets(p)
    \/ \E p \in Ranks : get_patterns(p)

SpecCoord == InitCoord /\ [][NextCoord]_vars

\* ------------------------------------------------- coordinator: properties

KindOf(op) == IF op = "get_targets" THEN "targets" ELSE "patterns"

\* the cycles of `kind` process p has completed
CyclesDone(p, kind) == {c \in 1 .. step[p] : script[c] = kind}

LastCycle(p, kind) ==
    CHOOSE c \in CyclesDone(p, kind) : \A d \in CyclesDone(p, kind) : d <= c

\* the runs of the strategy / create_patterns by `rank` in cycle c
CallsOf(rank, c) == {i \in 1 .. Len(calls) : calls[i].rank = rank /\ calls[i].cycle = c}

\* what rank 0's strategy / create_patterns returned in cycle c
RootResult(c) == calls[CHOOSE i \in CallsOf(0, c) : TRUE].res

\* the cycles rank 0 has entered
RootEntered == {c \in 1 .. Len(script) : step[0] >= c \/ (step[0] = c - 1 /\ pc[0] # "idle")}

PIE(p) == [kind |-> "raise", exc |-> "ParallelIntegrityError", rank |-> p]

\* C1 (replication invariant): a process that has completed initialise_targets
\* (initialise_patterns) holds in _targets (_patterns) exactly the value rank 0's
\* strategy (create_patterns) computed in the last such cycle the process
\* completed, never the None placeholder; so processes that completed the same
\* cycles hold the same values.
C1_Replication ==
    /\ \A p \in Ranks, kind \in Kinds :
          CyclesDone(p, kind) # {} =>
              /\ HasAttr(attrs[p], SlotOf(kind))
              /\ CallsOf(0, LastCycle(p, kind)) # {}
              /\ attrs[p][SlotOf(kind)] = RootResult(LastCycle(p, kind))
              /\ attrs[p][SlotOf(kind)] # None
    /\ \A p, q \in Ranks : step[p] = step[q] => attrs[p] = attrs[q]

\* every process has run initialise_targets twice, the two cycles computing
\* different values, and all hold the second one
C1_Witness ==
    /\ script = <<"targets", "targets">>
    /\ \A p \in Ranks : step[p] = 2 /\ attrs[p]["_targets"] = wire[2]
    /\ wire[1] # wire[2]

\* C2 (checkpoint ordering): on a process that has not completed
\* initialise_targets, get_targets fails with a ParallelIntegrityError carrying
\* that process's rank, whatever happened to the patterns slot; likewise
\* get_patterns before initialise_patterns, whatever happened to the targets slot.
C2_Checkpoint ==
    \A p \in Ranks, op \in {"get_targets", "get_patterns"} :
        (pc[p] = "idle" /\ CyclesDone(p, KindOf(op)) = {}) =>
            Get(p, op) = [op |-> op, rank |-> p, res |-> PIE(p)]

\* rank 1 completed initialise_targets, never initialise_patterns, and its
\* get_patterns failed with its rank
C2_Witness ==
    /\ NProcs > 1
    /\ CyclesDone(1, "targets") # {}
    /\ CyclesDone(1, "patterns") = {}
    /\ lastGet = [op |-> "get_patterns", rank |-> 1, res |-> PIE(1)]

\* C9 (single computation, ordering): the strategy / create_patterns is run by
\* rank 0 only, exactly once in every cycle rank 0 entered, and a process has
\* completed (stored) cycle c only if rank 0's run of cycle c has returned.
C9_SingleComputation ==
    /\ \A i \in 1 .. Len(calls) : calls[i].rank = 0
    /\ \A c \in RootEntered : Cardinality(CallsOf(0, c)) = 1
    /\ \A c \in 1 .. Len(script) : c \notin RootEntered => CallsOf(0, c) = {}
    /\ \A p \in Ranks : \A c \in 1 .. step[p] :
          /\ CallsOf(0, c) # {}
          /\ RootResult(c).kind = "value"
          /\ Len(wire) >= c

\* two cycles completed on all processes with two runs in all, both by rank 0
C9_Witness ==
    /\ \A p \in Ranks : step[p] = 2
    /\ Len(calls) = 2
    /\ script = <<"targets", "patterns">>

\* C10 (state machine): an attribute once stored is never removed; a
\* get_targets / get_patterns on a process that completed the initialisation
\* returns the value rank 0 computed in the last cycle that process completed
\* (the previous value until the process completes the re-initialisation, the
\* new value from then on), never an error and never a placeholder.
C10_StateMachine ==
    [][ /\ \A p \in Ranks, kind \in Kinds :
             HasAttr(attrs[p], SlotOf(kind)) => HasAttr(attrs'[p], SlotOf(kind))
        /\ \A p \in Ranks, op \in {"get_targets", "get_patterns"} :
             (/\ lastGet' # lastGet
              /\ lastGet'.op = op
              /\ lastGet'.rank = p
              /\ CyclesDone(p, KindOf(op)) # {}) =>
                 /\ lastGet'.res.kind = "value"
                 /\ lastGet'.res = RootResult(LastCycle(p, KindOf(op)))
      ]_vars

\* a re-initialisation is under way: rank 0 holds the new value, rank 1 still
\* the previous one, and get_targets on rank 1 returned the previous one
C10_Witness ==
    /\ NProcs > 1
    /\ script = <<"targets", "targets">>
    /\ step[0] = 2 /\ step[1] = 1
    /\ wire[1] # wire[2]
    /\ lastGet = [op |-> "get_targets", rank |-> 1, res |-> wire[1]]
    /\ attrs[0]["_targets"] = wire[2]

\* -------------------------------------------------------------- dispatch

\* The names the body of class TargetsNeurons binds above its last line, in
\* order (vars().keys() there).
ClassBody ==
    <<"__module__", "__qualname__", "initialise",
      "_targets_local", "_targets_cylinder", "_targets_cell_type",
      "_targets_representatives", "_targets_by_id", "_targets_by_label",
      "get_targets", "get_patterns", "initialise_targets", "initialise_patterns">>

\* str.startswith
StartsWith(s, prefix) ==
    Len(s) >= Len(prefix) /\ SubSeq(s, 1, Len(prefix)) = prefix

\* `[s[9:] for s in vars().keys() if s.startswith("_targets_")]`
neuron_targetting_types ==
    LET hits == SelectSeq(ClassBody, LAMBDA s : StartsWith(s, "_targets_"))
    IN  [i \in 1 .. Len(hits) |-> SubSeq(hits[i], 10, Len(hits[i]))]

\* the names of the class's methods, the callables getattr can find on a device
Methods == {ClassBody[i] : i \in {j \in 1 .. Len(ClassBody) : ~StartsWith(ClassBody[j], "__")}}

\* (mutant of get_targets_name: a typo in the prefix)
get_targets_name_typo(targetting) == "_target_" \o targetting

\* `get_targets_name = "_targets_" + self.targetting`
get_targets_name(targetting) == "_targets_" \o targetting

\* `getattr(self, name) if hasattr(self, name) else None`: a bound method of the
\* class, an instance attribute, or None
Lookup(o, name) ==
    IF name \in Methods THEN [kind |-> "method", name |-> name]
    ELSE IF HasAttr(o, name) THEN o[name]
    ELSE None

Callable(v) == v.kind = "method"

Unimplemented(targetting, node_name) ==
    [kind |-> "raise", exc |-> "NotImplementedError",
     msg |-> "Unimplemented neuron targetting type '" \o targetting
             \o "' in " \o node_name]

\* the device configurations the loader can produce
NodeNames == {"simulations.s.devices.a", "simulations.s.devices.b", "devices.c"}
TargettingNames ==
    {"local", "cylinder", "cell_type", "representatives", "by_id", "by_label",
     "", "sphere", "Local", "by_labels", "targets"}

\* TargetsNeurons.initialise(scaffold)
initialise ==
    /\ out = Pending
    /\ LET method == Lookup(dev, get_targets_name(dev["targetting"]))
       IN  IF ~Callable(method)
           THEN /\ out' = Unimplemented(dev["targetting"], dev["node_name"])
                /\ dev' = dev
           ELSE /\ out' = None
                /\ dev' = SetAttr(dev, "_get_targets", method)
    /\ UNCHANGED net
    /\ UNCHANGED coordVars

\* the configuration loader assigns the device's `targetting` attribute
set_targetting(name) ==
    /\ out # Pending
    /\ dev' = SetAttr(dev, "targetting", name)
    /\ out' = Pending
    /\ UNCHANGED net
    /\ UNCHANGED coordVars

InitDispatch ==
    /\ CoordIdle
    /\ net = NoAttrs
    /\ out = Pending
    /\ \E node \in NodeNames, name \in TargettingNames :
          dev = [node_name |-> node, targetting |-> name]

NextDispatch ==
    \/ initialise
    \/ \E name \in TargettingNames : set_targetting(name)

SpecDispatch == InitDispatch /\ [][NextDispatch]_vars

ImplementedStrategies ==
    {"local", "cylinder", "cell_type", "representatives", "by_id", "by_label"}

\* a step of initialise() obeys the dispatch rule, failing with exception `exc`
DispatchRule(exc) ==
    (out = Pending /\ out' # Pending) =>
        IF dev["targetting"] \in ImplementedStrategies
        THEN /\ out' = None
             /\ dev' = SetAttr(dev, "_get_targets",
                               [kind |-> "method",
                                name |-> "_targets_" \o dev["targetting"]])
        ELSE /\ out'.kind = "raise"
             /\ out'.exc = exc
             /\ out'.msg = "Unimplemented neuron targetting type '"
                           \o dev["targetting"] \o "' in " \o dev["node_name"]
             /\ dev' = dev

\* C3 as stated: an unimplemented name fails with a ConfigurationError.
C3_AsStated == [][DispatchRule("ConfigurationError")]_vars

\* C3, amended: initialise() installs exactly the strategy named by `targetting`
\* when that is one of local, cylinder, cell_type, representatives, by_id,
\* by_label (the registered neuron_targetting_types); for every other name it
\* fails with a NotImplementedError naming the strategy and the owning
\* component, and leaves the device as it was (no strategy installed, a
\* previously installed one kept).
C3_Dispatch ==
    /\ [][DispatchRule("NotImplementedError")]_vars
    /\ [](Len(neuron_targetting_types) = Cardinality(ImplementedStrategies))
    /\ []({neuron_targetting_types[i] : i \in 1 .. Len(neuron_targetting_types)}
             = ImplementedStrategies)

\* a device that had the cylinder strategy installed was re-initialised with an
\* unknown name: the call raised and the cylinder strategy is still installed
C3_Witness ==
    /\ out.kind = "raise"
    /\ dev["targetting"] = "sphere"
    /\ HasAttr(dev, "_get_targets")
    /\ dev["_get_targets"].name = "_targets_cylinder"

\* ---------------------------------------------------- section targetting

NSections == 2
MaxCount == 2

PyStr(x) == [kind |-> "str", v |-> x]
PyInt(n) == [kind |-> "int", v |-> n]

SectionLabels == {{"soma"}, {"dendrites"}}

\* a cell: its sections, each with its labels, and its soma: the sections
\* labelled "soma", of which every cell has at least one
SomaOf(sections) == SelectSeq(sections, LAMBDA sec : "soma" \in sec.labels)

Cells ==
    {cell \in
        {[sections |-> [i \in 1 .. NSections |-> [id |-> i, labels |-> lab[i]]],
          soma |-> SomaOf([i \in 1 .. NSections |-> [id |-> i, labels |-> lab[i]]])] :
            lab \in [1 .. NSections -> SectionLabels]} :
        Len(cell.soma) > 0}

\* the section targetting configurations: each attribute may be absent
SectionConfigs ==
    {[a \in A |-> c[a]] :
        A \in SUBSET {"section_targetting", "section_count", "section_type"},
        c \in [section_targetting : {PyStr("default"), PyStr("random"), PyStr("")},
               section_count : {PyStr("all")} \cup {PyInt(k) : k \in 0 .. MaxCount},
               section_type : {PyStr("soma"), PyStr("dendrites"), PyStr("axon")}]}

\* the names of the methods of class TargetsSections
SectionMethods == {"target_section", "_section_target_default"}

\* `if not hasattr(self, name): self.name = value`
WithDefault(o, name, value) == IF HasAttr(o, name) THEN o ELSE SetAttr(o, name, value)

\* (mutant of Candidates: the section_type is ignored)
CandidatesSoma(o, cell) == cell.soma

\* `[s for s in cell.sections if self.section_type in s.labels]`, or cell.soma
Candidates(o, cell) ==
    IF HasAttr(o, "section_type")
    THEN SelectSeq(cell.sections, LAMBDA sec : o["section_type"].v \in sec.labels)
    ELSE cell.soma

\* what `[random.choice(sections) for _ in range(k)]` can evaluate to:
\* random.choice raises IndexError on an empty sequence
Choices(sections, k) ==
    IF k > 0 /\ Len(sections) = 0
    THEN {Raise("IndexError")}
    ELSE {Value([i \in 1 .. k |-> sections[pick[i]]]) :
             pick \in [1 .. k -> 1 .. Len(sections)]}

\* TargetsSections._section_target_default(cell): the object with its defaults
\* set, and the possible outcomes
section_target_default_self(o) == WithDefault(o, "section_count", PyInt(1))

section_target_default(o, cell) ==
    LET self == section_target_default_self(o)
        sections == Candidates(self, cell)
    IN  IF self["section_count"] = PyStr("all")
        THEN {Value(sections)}
        ELSE Choices(sections, self["section_count"].v)

\* TargetsSections.target_section(cell)
target_section ==
    LET self == WithDefault(dev, "section_targetting", PyStr("default"))
        method_name == "_section_target_" \o self["section_targetting"].v
    IN  /\ IF method_name \notin SectionMethods
           THEN /\ out' = [kind |-> "raise", exc |-> "Exception",
                           msg |-> "Unknown section targetting type '"
                                   \o self["section_targetting"].v \o "'"]
                /\ dev' = self
           ELSE /\ out' \in section_target_default(self, net)
                /\ dev' = section_target_default_self(self)
        /\ UNCHANGED net
        /\ UNCHANGED coordVars

InitSection ==
    /\ CoordIdle
    /\ dev \in SectionConfigs
    /\ net \in Cells
    /\ out = Pending

NextSection == target_section

SpecSection == InitSection /\ [][NextSection]_vars

\* ---- section targetting: properties

SectionsOf(cell, label) ==
    SelectSeq(cell.sections, LAMBDA sec : label \in sec.labels)

Range(f) == {f[i] : i \in DOMAIN f}

\* The rule of C8 for one call of target_section, from the configuration
\* before the call: `lenient` excuses a numeric count on an empty candidate set.
SectionRule(lenient) ==
    LET name == IF HasAttr(dev, "section_targetting")
                THEN dev["section_targetting"].v ELSE "default"
        count == IF HasAttr(dev, "section_count") THEN dev["section_count"] ELSE PyInt(1)
        cand == IF HasAttr(dev, "section_type")
                THEN SectionsOf(net, dev["section_type"].v) ELSE net.soma
    IN  IF name # "default"
        THEN out'.kind = "raise"
        ELSE IF count = PyStr("all")
        THEN out' = Value(cand)
        ELSE IF lenient /\ count.v > 0 /\ Len(cand) = 0
        THEN out' = Raise("IndexError")
        ELSE /\ out'.kind = "value"
             /\ Len(out'.v) = count.v
             /\ Range(out'.v) \subseteq Range(cand)

\* C8 as stated: a numeric section_count k always yields exactly k picks.
C8_AsStated == [][SectionRule(FALSE)]_vars

\* C8, amended: as stated, except that with a numeric section_count k >= 1 and
\* an empty candidate set target_section fails with an IndexError (there is
\* nothing to pick); for an integer k >= 0, k picks are returned when the
\* candidate set is not empty or k = 0.
C8_Sections == [][SectionRule(TRUE)]_vars

\* two picks of the same dendrite section of a cell whose soma is another section
C8_Witness ==
    /\ out.kind = "value"
    /\ Len(out.v) = 2
    /\ out.v[1] = out.v[2]
    /\ HasAttr(dev, "section_type")
    /\ dev["section_type"] = PyStr("dendrites")
    /\ dev["section_count"] = PyInt(2)
    /\ out.v[1] \notin Range(net.soma)

\* ------------------------------------------------------ by-label resolution

MaxIds == 3
FracDen == 2

Ids == 1 .. MaxIds

PyFloat(n) == [kind |-> "float", v |-> n]

\* the least integer >= a / b, for b > 0
CeilDiv(a, b) == IF a % b = 0 THEN a \div b ELSE (a \div b) + 1

\* np.ceil(frac * total) for frac = num / FracDen: a numpy float64, never an int
np_ceil_times(num, total) == PyFloat(CeilDiv(num * total, FracDen))

\* Python's min(a, b) and max(a, b): the first argument unless the second is
\* strictly smaller (larger); the result keeps the type of the argument returned
PyMin(a, b) == IF b.v < a.v THEN b ELSE a
PyMax(a, b) == IF b.v > a.v THEN b ELSE a

\* the sequences of k distinct members of S
Draws(S, k) ==
    {f \in [1 .. k -> S] : \A i, j \in 1 .. k : i # j => f[i] # f[j]}

\* random.sample(population, k): k must be an int ([None] * k raises TypeError
\* for a float), and the sample is k members at distinct positions
random_sample(population, k) ==
    IF k.kind # "int" THEN {Raise("TypeError")}
    ELSE IF k.v < 0 \/ k.v > Cardinality(population) THEN {Raise("ValueError")}
    ELSE {Value(d) : d \in Draws(population, k.v)}

\* scaffold.get_labels(pattern): the labels a pattern of the `labels` list names
LabelNames == {"a", "b"}
LabelPatterns == {"a", "b", "*"}
get_labels(pattern) == IF pattern = "*" THEN <<"a", "b">> ELSE <<pattern>>

\* `chain(*map(self.scaffold.get_labels, self.labels))`
RECURSIVE chain_get_labels(_)
chain_get_labels(patterns) ==
    IF patterns = <<>> THEN <<>>
    ELSE get_labels(Head(patterns)) \o chain_get_labels(Tail(patterns))

\* the `n` of one pass of the loop of _targets_by_label
label_n(o, total) ==
    LET n == IF HasAttr(o, "cell_fraction")
             THEN np_ceil_times(o["cell_fraction"], total)
             ELSE IF HasAttr(o, "cell_count") THEN PyInt(o["cell_count"])
             ELSE PyInt(total)
    IN  PyMax(PyInt(0), PyMin(n, PyInt(total)))

\* the loop of _targets_by_label over the labels left, from the targets so far
RECURSIVE by_label_loop(_, _, _, _)
by_label_loop(o, scaffold, labels, targets) ==
    IF labels = <<>> THEN {Value(targets)}
    ELSE LET labelled == scaffold.labels[Head(labels)]
             total == Cardinality(labelled)
             drawn == random_sample(labelled, label_n(o, total))
         IN  UNION {IF d.kind = "raise" THEN {d}
                    ELSE by_label_loop(o, scaffold, Tail(labels), targets \o d.v) :
                    d \in drawn}

\* TargetsNeurons._targets_by_label: its possible outcomes
targets_by_label(o, scaffold) ==
    by_label_loop(o, scaffold, chain_get_labels(o["labels"]), <<>>)

\* the by-label configurations: a list of one or two patterns, perhaps a
\* cell_fraction (in units of 1 / FracDen), perhaps a cell_count
LabelConfigs ==
    {[a \in A \cup {"labels"} |-> c[a]] :
        A \in SUBSET {"cell_fraction", "cell_count"},
        c \in [labels : {<<x>> : x \in LabelPatterns}
                        \cup {<<x, y>> : x \in {"a"}, y \in LabelNames},
               cell_fraction : 0 .. FracDen + 1,
               cell_count : 0 .. MaxIds + 1]}

_targets_by_label ==
    /\ out = Pending
    /\ out' \in targets_by_label(dev, net)
    /\ UNCHANGED <<dev, net>>
    /\ UNCHANGED coordVars

InitByLabel ==
    /\ CoordIdle
    /\ dev \in LabelConfigs
    /\ net \in [labels : [LabelNames -> SUBSET Ids]]
    /\ out = Pending

NextByLabel == _targets_by_label

SpecByLabel == InitByLabel /\ [][NextByLabel]_vars

\* ---- by-label resolution: properties

Clamp(n, lo, hi) == IF n < lo THEN lo ELSE IF n > hi THEN hi ELSE n

\* the number of identifiers C4 says are drawn from a label of population P
C4_Count(P) ==
    Clamp(IF HasAttr(dev, "cell_fraction")
          THEN CeilDiv(dev["cell_fraction"] * P, FracDen)
          ELSE IF HasAttr(dev, "cell_count") THEN dev["cell_count"] ELSE P,
          0, P)

\* `res`, from position `from` on, is one draw per label: C4_Count members of
\* the label's set, pairwise distinct
RECURSIVE C4_Segments(_, _, _)
C4_Segments(res, from, labels) ==
    IF labels = <<>> THEN from = Len(res) + 1
    ELSE LET labelled == net.labels[Head(labels)]
             n == C4_Count(Cardinality(labelled))
         IN  /\ from + n - 1 <= Len(res)
             /\ \A i \in from .. from + n - 1 : res[i] \in labelled
             /\ \A i, j \in from .. from + n - 1 : i # j => res[i] # res[j]
             /\ C4_Segments(res, from + n, Tail(labels))

\* C4 as stated: the by-label resolution returns, for every label of the
\* expanded list, clamp(n, 0, P) pairwise distinct members of the label's set
\* (n = ceil(fraction * P), else cell_count, else P), concatenated.
C4_AsStated ==
    out # Pending =>
        /\ out.kind = "value"
        /\ C4_Segments(out.v, 1, chain_get_labels(dev["labels"]))

\* ------------------------------------------------ representative resolution

NTypes == 3
IdsPerType == 2

TypeNames == <<"granule", "golgi", "mossy", "purkinje", "stellate">>

\* the identifiers a type can hold: the types' ranges are disjoint
TypeIds(t) == (t - 1) * IdsPerType + 1 .. t * IdsPerType

\* self.adapter.cell_models.values(): one cell model per type, each with its
\* cell_type's name, relay flag and the result of cell_type.get_ids()
CellModels ==
    {[t \in 1 .. NTypes |->
         [name |-> TypeNames[t], relay |-> relay[t],
          ids |-> {(t - 1) * IdsPerType + k : k \in members[t]}]] :
        relay \in [1 .. NTypes -> BOOLEAN],
        members \in [1 .. NTypes -> SUBSET (1 .. IdsPerType)]}

\* the `cell_types` filters: absent, or a list of type names
TypeFilters ==
    {NoAttrs} \cup {[cell_types |-> l] :
                       l \in {<<>>, <<"granule">>, <<"golgi">>, <<"golgi", "granule">>,
                              <<"granule", "basket">>}}

\* `name in self.cell_types`
InList(x, list) == \E i \in 1 .. Len(list) : list[i] = x

\* the target_types of _targets_representatives: the non-relay types, filtered
\* by `cell_types` when the device has that attribute
target_types(o, cell_models) ==
    LET nonrelay == SelectSeq(cell_models, LAMBDA m : ~m.relay)
    IN  IF HasAttr(o, "cell_types")
        THEN SelectSeq(nonrelay, LAMBDA m : InList(m.name, o["cell_types"]))
        ELSE nonrelay

\* `if len(target_ids) > 0`: the guard of the comprehension tests the list of
\* types' id lists, not the id list at hand
choice_guard(target_ids, type_ids) == Len(target_ids) > 0

\* random.choice(seq): IndexError on an empty sequence, else any member
random_choice(S) == IF S = {} THEN {Raise("IndexError")} ELSE {Value(x) : x \in S}

\* `[random.choice(type_ids) for type_ids in target_ids if len(target_ids) > 0]`,
\* from position i on, given the representatives so far
RECURSIVE representatives_from(_, _, _)
representatives_from(target_ids, i, acc) ==
    IF i > Len(target_ids) THEN {Value(acc)}
    ELSE IF ~choice_guard(target_ids, target_ids[i])
    THEN representatives_from(target_ids, i + 1, acc)
    ELSE UNION {IF c.kind = "raise" THEN {c}
                ELSE representatives_from(target_ids, i + 1, Append(acc, c.v)) :
                c \in random_choice(target_ids[i])}

\* TargetsNeurons._targets_representatives: its possible outcomes
targets_representatives(o, adapter) ==
    LET types == target_types(o, adapter.cell_models)
        target_ids == [i \in 1 .. Len(types) |-> types[i].ids]
    IN  representatives_from(target_ids, 1, <<>>)

_targets_representatives ==
    /\ out = Pending
    /\ out' \in targets_representatives(dev, net)
    /\ UNCHANGED <<dev, net>>
    /\ UNCHANGED coordVars

InitRepresentatives ==
    /\ CoordIdle
    /\ dev \in TypeFilters
    /\ net \in [cell_models : CellModels]
    /\ out = Pending

NextRepresentatives == _targets_representatives

SpecRepresentatives == InitRepresentatives /\ [][NextRepresentatives]_vars

\* ---- representative resolution: properties

\* the eligible types that have a member, in the order of the cell models
C5_Represented ==
    SelectSeq(net.cell_models,
              LAMBDA m : /\ ~m.relay
                         /\ HasAttr(dev, "cell_types") => InList(m.name, dev["cell_types"])
                         /\ m.ids # {})

\* C5 as stated: the representative resolution never fails, and returns exactly
\* one identifier, a member of the type, for each eligible type (not relay, in
\* `cell_types` when declared) that has a member, and nothing for any other.
C5_AsStated ==
    out # Pending =>
        /\ out.kind = "value"
        /\ Len(out.v) = Len(C5_Represented)
        /\ \A i \in 1 .. Len(out.v) : out.v[i] \in C5_Represented[i].ids

\* ------------------------------------------- cylinder and local resolution

GridMax == 2
MaxRadius == 2

\* numpy arrays: a 2-D array is its number of columns and its rows
Array(ncols, rows) == [kind |-> "array", ncols |-> ncols, rows |-> rows]

\* np.empty((0, ncols))
np_empty(ncols) == Array(ncols, <<>>)

\* a[:, lo:hi]
Columns(a, lo, hi) ==
    Array(hi - lo, [i \in 1 .. Len(a.rows) |-> SubSeq(a.rows[i], lo + 1, hi)])

\* a[:, j], a 1-D array, which np.vstack takes as a single row
Column(a, j) == [i \in 1 .. Len(a.rows) |-> a.rows[i][j + 1]]
AsRow(column) == Array(Len(column), <<column>>)

\* np.vstack((a, b)): the arrays must have the same number of columns
np_vstack(a, b) ==
    IF a.ncols # b.ncols THEN Raise("ValueError")
    ELSE Array(a.ncols, a.rows \o b.rows)

\* the placed cell types are granule and golgi; the number of cells of each
CellsOfType(t) == IF t = "granule" THEN 2 ELSE 1

Positions == {<<x, y, z>> : x \in 0 .. GridMax, y \in 0 .. 1, z \in 0 .. GridMax}

\* the networks: every cell has an identifier, unique in the network, and a
\* position; the network's extents are X and Z
FirstId(t) == IF t = "granule" THEN 0 ELSE CellsOfType("granule")

Networks ==
    {[cells |-> [t \in {"granule", "golgi"} |->
                    [i \in 1 .. CellsOfType(t) |->
                        <<FirstId(t) + i - 1, t>> \o pos[t][i]]],
      X |-> GridMax, Z |-> GridMax] :
        pos \in [granule : [1 .. CellsOfType("granule") -> Positions],
                 golgi : [1 .. CellsOfType("golgi") -> Positions]]}

\* scaffold.get_cells_by_type(t): rows (id, type, x, y, z)
get_cells_by_type(scaffold, t) == Array(5, scaffold.cells[t])

\* the loop `for t in self.cell_types:` of the branch for several cell types,
\* shared by _targets_local and _targets_cylinder: the (target_cells, id_map)
\* after the types left, or the exception a np.vstack raised
RECURSIVE compile_cells(_, _, _, _)
compile_cells(scaffold, types, target_cells, id_map) ==
    IF types = <<>> THEN [kind |-> "pair", target_cells |-> target_cells, id_map |-> id_map]
    ELSE LET cells == get_cells_by_type(scaffold, Head(types))
             stacked == np_vstack(target_cells, Columns(cells, 2, 5))
         IN  IF stacked.kind = "raise" THEN stacked
             ELSE LET ids == np_vstack(id_map, AsRow(Column(cells, 0)))
                  IN  IF ids.kind = "raise" THEN ids
                      ELSE compile_cells(scaffold, Tail(types), stacked, ids)

\* twice the difference of a coordinate and half the extent: (x - X / 2) * 2
Twice(x, extent) == 2 * x - extent

\* `np.sum((target_positions[:, [0, 2]] - center) ** 2, axis=1).__lt__(radius ** 2)`
\* for one row (x, y, z) of target_positions, both sides times 4
in_cylinder(row, scaffold, radius) ==
    Twice(row[1], scaffold.X) * Twice(row[1], scaffold.X)
        + Twice(row[3], scaffold.Z) * Twice(row[3], scaffold.Z)
    < 4 * radius * radius

\* TargetsNeurons._targets_cylinder
targets_cylinder(o, scaffold) ==
    IF Len(o["cell_types"]) # 1
    THEN LET compiled == compile_cells(scaffold, o["cell_types"], np_empty(5), np_empty(1))
         IN  IF compiled.kind = "raise" THEN compiled
             ELSE None                     \* the branch ends without a return
    ELSE LET target_cells == get_cells_by_type(scaffold, o["cell_types"][1])
             target_positions == Columns(target_cells, 2, 5)
             hit == SelectSeq(target_cells.rows,
                              LAMBDA row : in_cylinder(SubSeq(row, 3, 5), scaffold,
                                                       o["radius"]))
             \* target_cells[target_cells_idx, 0].astype(int).tolist(): the
             \* identifiers, whole numbers held as floats, as ints
         IN  Value([i \in 1 .. Len(hit) |-> hit[i][1]])

\* the squared Euclidean distance of two points
Dist2(a, b) ==
    (a[1] - b[1]) * (a[1] - b[1]) + (a[2] - b[2]) * (a[2] - b[2])
        + (a[3] - b[3]) * (a[3] - b[3])

\* tree.query_radius(origin, r)[0] for a tree over `positions`: the indices
\* of the points at distance <= r of the origin
query_radius(positions, origin, r) ==
    SelectSeq([i \in 1 .. Len(positions.rows) |-> i],
              LAMBDA i : Dist2(positions.rows[i], origin) <= r * r)

\* TargetsNeurons._targets_local
targets_local(o, scaffold) ==
    IF Len(o["cell_types"]) # 1
    THEN LET compiled == compile_cells(scaffold, o["cell_types"], np_empty(5), np_empty(1))
         IN  IF compiled.kind = "raise" THEN compiled
             ELSE LET found == query_radius(compiled.target_cells, o["origin"], o["radius"])
                  IN  Value([i \in 1 .. Len(found) |-> compiled.id_map.rows[found[i]]])
    ELSE LET target_cells == get_cells_by_type(scaffold, o["cell_types"][1])
             id_map == Column(target_cells, 0)
             target_positions == Columns(target_cells, 2, 5)
             found == query_radius(target_positions, o["origin"], o["radius"])
         IN  Value([i \in 1 .. Len(found) |-> id_map[found[i]]])

\* the spatial configurations: one or two declared cell types, a radius, an origin
SpatialConfigs ==
    [cell_types : {<<"granule">>, <<"golgi">>, <<"granule", "golgi">>, <<"golgi", "granule">>},
     radius : 0 .. MaxRadius,
     origin : {<<0, 0, 0>>, <<1, 1, 1>>}]

_targets_cylinder ==
    /\ out = Pending
    /\ out' = targets_cylinder(dev, net)
    /\ UNCHANGED <<dev, net>>
    /\ UNCHANGED coordVars

_targets_local ==
    /\ out = Pending
    /\ out' = targets_local(dev, net)
    /\ UNCHANGED <<dev, net>>
    /\ UNCHANGED coordVars

InitSpatial ==
    /\ CoordIdle
    /\ dev \in SpatialConfigs
    /\ net \in Networks
    /\ out = Pending

NextCylinder == _targets_cylinder
NextLocal == _targets_local

SpecCylinder == InitSpatial /\ [][NextCylinder]_vars
SpecLocal == InitSpatial /\ [][NextLocal]_vars

\* ---- cylinder and local resolution: properties

\* the rows of the declared types' cells, in the provider's order
RECURSIVE DeclaredCells(_)
DeclaredCells(types) ==
    IF types = <<>> THEN <<>>
    ELSE net.cells[Head(types)] \o DeclaredCells(Tail(types))

\* C6 as stated: for one and for several declared cell types, the cylinder
\* resolution returns the identifiers of the declared types' cells with
\* (x - X/2)^2 + (z - Z/2)^2 < radius^2 (strictly), whatever their y, in the
\* provider's order.
C6_AsStated ==
    out # Pending =>
        LET inside == SelectSeq(DeclaredCells(dev["cell_types"]),
                                LAMBDA c : 4 * ((c[3] * c[3] - c[3] * net.X)
                                                + (c[5] * c[5] - c[5] * net.Z))
                                              + net.X * net.X + net.Z * net.Z
                                           < 4 * dev["radius"] * dev["radius"])
        IN  out = Value([i \in 1 .. Len(inside) |-> inside[i][1]])

\* C7 as stated: for one and for several declared cell types, the local
\* resolution returns exactly the set of identifiers of the declared types'
\* cells at Euclidean distance <= radius of `origin`.
C7_AsStated ==
    out # Pending =>
        /\ out.kind = "value"
        /\ {out.v[i] : i \in 1 .. Len(out.v)}
              = {c[1] : c \in {d \in Range(DeclaredCells(dev["cell_types"])) :
                                  Dist2(<<d[3], d[4], d[5]>>, dev["origin"])
                                      <= dev["radius"] * dev["radius"]}}

====
